---- MODULE Spec2Model ----
(***************************************************************************)
(* S3ToRedshiftTransfer (airflow/providers/amazon/aws/operators/           *)
(* s3_to_redshift.py): one operator instance, its construction and the     *)
(* execute calls made on it.                                               *)
(*                                                                         *)
(* Text (the COPY statement, the exception message, the log lines) is a    *)
(* sequence of string tokens: the literal pieces of the source's template  *)
(* and the interpolated values, in the order str.format lays them out.     *)
(* Runs of whitespace inside the template's literal pieces are written as  *)
(* a single blank.                                                         *)
(***************************************************************************)
EXTENDS Naturals, Sequences, FiniteSets

VARIABLES
    phase,      \* "new" | "constructed" | "ctor_failed"
    args,       \* the arguments __init__ is called with
    self,       \* the instance's attributes
    ctor,       \* what __init__ did: its credential-provider calls and what it raised
    runs        \* one record per execute call, in call order

vars == <<phase, args, self, ctor, runs>>

\* ------------------------------------------------------------------ bounds
MaxRuns == 3
MaxOpts == 2

\* ------------------------------------------------------------------ values
\* Python's None, a value no argument string equals.
None == "<None>"

Schemas == {"public"}
Tables == {"events"}
DataSources == {"s3", "dynamodb", "gcs"}
Locations == {"my-bucket"}
Keys == {"events.csv", None}
Options == {"CSV", "GZIP"}
Operations == {"COPY", "UPSERT", "INSERT", "copy"}
AccessKeys == {"AK1", "AK2"}
SecretKeys == {"SK1", "SK2"}

OptionLists == UNION {[1..n -> Options] : n \in 0..MaxOpts}

\* What a credential provider's get_credentials() returns.
Credentials == [access_key : AccessKeys, secret_key : SecretKeys]
NoCredentials == [access_key |-> None, secret_key |-> None]

NoException == [type |-> "None", message |-> <<>>]

\* ------------------------------------------------------------------ text
\* str() of a value interpolated by str.format: None prints as the text None.
Str(v) == IF v = None THEN "None" ELSE v

RECURSIVE ReprItems(_)
\* repr() of a non-empty list's items: each item quoted, separated by ", ".
ReprItems(l) ==
    IF Len(l) = 0 THEN <<>>
    ELSE IF Len(l) = 1 THEN <<"'", l[1], "'">>
    ELSE <<"'", l[1], "'", ", ">> \o ReprItems(Tail(l))

\* str.format of a list: its repr, the items in list order between brackets.
ReprList(l) == <<"[">> \o ReprItems(l) \o <<"]">>

\* The copy_options argument left at its default, None (written as a
\* sequence no option list equals, so that it compares with lists).
NoOptions == <<None>>

\* copy_options or []
OrEmpty(copy_options) == IF copy_options = NoOptions THEN <<>> ELSE copy_options

\* copy_query with the source-kind token derived from the provider choice
\* instead of taken from the data_source attribute.
copy_query_rederived(s, credentials, schema, table) ==
    << "COPY ", Str(schema), ".", Str(table),
       " FROM '", (IF s.data_source = "s3" THEN "s3" ELSE "dynamodb"),
       "://", Str(s.s3bucket_or_dynamodbtable),
       "/", Str(s.s3_key),
       "' with credentials 'aws_access_key_id=", Str(credentials.access_key),
       ";aws_secret_access_key=", Str(credentials.secret_key), "' " >>
    \o ReprList(s.copy_options) \o <<";">>

\* The template of _copy_data, formatted.
copy_query(s, credentials, schema, table) ==
    << "COPY ", Str(schema), ".", Str(table),
       " FROM '", Str(s.data_source), "://", Str(s.s3bucket_or_dynamodbtable),
       "/", Str(s.s3_key),
       "' with credentials 'aws_access_key_id=", Str(credentials.access_key),
       ";aws_secret_access_key=", Str(credentials.secret_key), "' " >>
    \o ReprList(s.copy_options) \o <<";">>

\* The message without its list of options.
InvalidOperationMessage_bare == <<"Invalid operation">>

\* The message of the AirflowException execute raises.
InvalidOperationMessage ==
    <<"Invalid operation; options [", "COPY", ", ", "UPSERT", "]">>

LogExecuting == <<"Executing COPY command...">>
LogComplete == <<"COPY command complete...">>

\* One execute call's record: the calls it made, what it logged, what it raised.
Run(cred_calls, pg_calls, log, raised) ==
    [cred_calls |-> cred_calls, pg_calls |-> pg_calls, log |-> log, raised |-> raised]

\* ------------------------------------------------------------------ __init__
\* The credential provider __init__ asks, chosen by the data_source argument.
DataSourceHook(data_source) ==
    IF data_source = "s3" THEN "S3Hook" ELSE "AwsDynamoDBHook"

Unconstructed ==
    [schema |-> None, table |-> None, data_source |-> None,
     s3bucket_or_dynamodbtable |-> None, s3_key |-> None,
     copy_options |-> <<>>, autocommit |-> FALSE, operation |-> None,
     data_source_hook |-> NoCredentials]

\* The attributes __init__ assigns before it asks for credentials.
Attributes(a) ==
    [schema |-> a.schema, table |-> a.table, data_source |-> a.data_source,
     s3bucket_or_dynamodbtable |-> a.s3bucket_or_dynamodbtable,
     s3_key |-> a.s3_key,
     copy_options |-> OrEmpty(a.copy_options),
     autocommit |-> a.autocommit, operation |-> a.operation,
     data_source_hook |-> NoCredentials]

Init ==
    /\ phase = "new"
    /\ args \in [schema : Schemas, table : Tables, data_source : DataSources,
                 s3bucket_or_dynamodbtable : Locations, s3_key : Keys,
                 copy_options : OptionLists \cup {NoOptions},
                 operation : Operations, autocommit : BOOLEAN]
    /\ self = Unconstructed
    /\ ctor = [cred_calls |-> <<>>, raised |-> NoException]
    /\ runs = <<>>

\* __init__ with get_credentials() returning a credential pair.
__init__ ==
    /\ phase = "new"
    /\ \E c \in Credentials :
        /\ self' = [Attributes(args) EXCEPT !.data_source_hook = c]
        /\ ctor' = [cred_calls |-> <<[hook |-> DataSourceHook(args.data_source),
                                      result |-> c]>>,
                    raised |-> NoException]
    /\ phase' = "constructed"
    /\ UNCHANGED <<args, runs>>

\* __init__ with get_credentials() raising: the provider's error leaves
\* __init__ and no instance exists.
__init__fails ==
    /\ phase = "new"
    /\ ctor' = [cred_calls |-> <<[hook |-> DataSourceHook(args.data_source),
                                  result |-> NoCredentials]>>,
                raised |-> [type |-> "CredentialProviderError", message |-> <<>>]]
    /\ phase' = "ctor_failed"
    /\ UNCHANGED <<args, self, runs>>

\* ------------------------------------------------------------------ execute
\* _copy_data asking the provider again on every call, and using what it
\* then returns.
_copy_data_resolving(s, credentials, schema, table, ok) ==
    LET fresh == CHOOSE c \in Credentials : c # credentials
        call == [method |-> "run",
                 sql |-> copy_query(s, fresh, schema, table),
                 autocommit |-> s.autocommit,
                 failed |-> ~ok]
        asked == <<[hook |-> DataSourceHook(s.data_source), result |-> fresh]>>
    IN  IF ok
        THEN Run(asked, <<call>>, <<LogExecuting, LogComplete>>, NoException)
        ELSE Run(asked, <<call>>, <<LogExecuting>>,
                 [type |-> "WarehouseError", message |-> <<>>])

\* _copy_data catching the warehouse's failure and carrying on.
_copy_data_swallowing(s, credentials, schema, table, ok) ==
    LET call == [method |-> "run",
                 sql |-> copy_query(s, credentials, schema, table),
                 autocommit |-> s.autocommit,
                 failed |-> ~ok]
    IN  Run(<<>>, <<call>>, <<LogExecuting, LogComplete>>, NoException)

\* _copy_data committing on the connection after the statement.
_copy_data_committing(s, credentials, schema, table, ok) ==
    LET call == [method |-> "run",
                 sql |-> copy_query(s, credentials, schema, table),
                 autocommit |-> s.autocommit,
                 failed |-> ~ok]
        commit == [method |-> "commit", sql |-> <<>>,
                   autocommit |-> FALSE, failed |-> FALSE]
    IN  IF ok
        THEN Run(<<>>, <<call, commit>>, <<LogExecuting, LogComplete>>, NoException)
        ELSE Run(<<>>, <<call>>, <<LogExecuting>>,
                 [type |-> "WarehouseError", message |-> <<>>])

\* _copy_data logging the statement it submits.
_copy_data_logging(s, credentials, schema, table, ok) ==
    LET sql == copy_query(s, credentials, schema, table)
        call == [method |-> "run", sql |-> sql,
                 autocommit |-> s.autocommit, failed |-> ~ok]
    IN  IF ok
        THEN Run(<<>>, <<call>>, <<LogExecuting, sql, LogComplete>>, NoException)
        ELSE Run(<<>>, <<call>>, <<LogExecuting, sql>>,
                 [type |-> "WarehouseError", message |-> <<>>])

\* _copy_data on instance s: log, submit the statement through
\* PostgresHook.run, log.  ok is whether the warehouse connection accepts the
\* statement; when it does not, run raises and the raise leaves _copy_data.
_copy_data(s, credentials, schema, table, ok) ==
    LET call == [method |-> "run",
                 sql |-> copy_query(s, credentials, schema, table),
                 autocommit |-> s.autocommit,
                 failed |-> ~ok]
    IN  IF ok
        THEN Run(<<>>, <<call>>, <<LogExecuting, LogComplete>>, NoException)
        ELSE Run(<<>>, <<call>>, <<LogExecuting>>,
                 [type |-> "WarehouseError", message |-> <<>>])

\* The test taking every mode the message lists for one to carry out.
IsCopy_or_listed(operation) == operation \in {"COPY", "UPSERT"}

\* The test execute branches on.
IsCopy(operation) == operation = "COPY"

\* execute submitting the statement before it looks at the mode.
execute_run_late_check(s, ok) ==
    LET copied == _copy_data(s, s.data_source_hook, s.schema, s.table, ok)
    IN  IF IsCopy(s.operation) \/ ~ok
        THEN copied
        ELSE Run(<<>>, copied.pg_calls, copied.log,
                 [type |-> "AirflowException", message |-> InvalidOperationMessage])

\* execute on instance s: what one call does, given the warehouse's answer.
execute_run(s, ok) ==
    IF IsCopy(s.operation)
    THEN _copy_data(s, s.data_source_hook, s.schema, s.table, ok)
    ELSE Run(<<>>, <<>>, <<>>,
             [type |-> "AirflowException", message |-> InvalidOperationMessage])

execute ==
    /\ phase = "constructed"
    /\ Len(runs) < MaxRuns
    /\ \E ok \in BOOLEAN : runs' = Append(runs, execute_run(self, ok))
    /\ UNCHANGED <<phase, args, self, ctor>>

Next == __init__ \/ __init__fails \/ execute

Spec == Init /\ [][Next]_vars

\* ------------------------------------------------------------------ reading
RunIds == 1..Len(runs)

\* Whether token x occurs in text t.
Contains(t, x) == \E k \in 1..Len(t) : t[k] = x

\* The fields of a submitted statement, read back from its text.
SchemaOf(sql) == sql[2]
TableOf(sql) == sql[4]
KindOf(sql) == sql[6]
LocationOf(sql) == sql[8]
KeyOf(sql) == sql[10]
AccessKeyOf(sql) == sql[12]
SecretKeyOf(sql) == sql[14]
\* The option list is the text between "[" (token 16) and the closing "]":
\* n options take 4n - 1 tokens, the k-th option being token 14 + 4k.
OptionCountOf(sql) == (Len(sql) - 16) \div 4
OptionOf(sql, k) == sql[14 + 4 * k]

Recognized == {"COPY", "UPSERT"}

\* ------------------------------------------------------------------ claims

\* C1: on an instance whose operation is anything other than "COPY", however
\* many times execute is called, no call is made on the warehouse connection
\* and every call ends in an AirflowException.
C1_NonCopyNeverReachesWarehouse ==
    (phase = "constructed" /\ args.operation # "COPY") =>
        \A i \in RunIds :
            /\ runs[i].pg_calls = <<>>
            /\ runs[i].raised.type = "AirflowException"

C1_Witness ==
    /\ phase = "constructed"
    /\ args.operation = "UPSERT"
    /\ Len(runs) >= 2

\* C2 as stated: when a mode outside {COPY, UPSERT} is rejected, no
\* credential provider was called and no other I/O was made at any earlier
\* point of the instance's life, construction included.
C2_RejectedBeforeAnyIO ==
    \A i \in RunIds :
        (args.operation \notin Recognized /\ runs[i].raised.type = "AirflowException") =>
            /\ ctor.cred_calls = <<>>
            /\ \A j \in 1..i : runs[j].cred_calls = <<>> /\ runs[j].pg_calls = <<>>

\* C2 amended: a mode outside {COPY, UPSERT} is not rejected by the
\* constructor but by each execute call, before any call on the warehouse
\* connection; the only I/O that precedes a rejection is the single
\* credential-provider call the constructor made.
C2_RejectedBeforeWarehouseIO ==
    args.operation \notin Recognized =>
        /\ ctor.raised.type # "AirflowException"
        /\ \A i \in RunIds :
            /\ runs[i].raised.type = "AirflowException"
            /\ Len(ctor.cred_calls) = 1
            /\ \A j \in 1..i : runs[j].cred_calls = <<>> /\ runs[j].pg_calls = <<>>

C2_Witness ==
    /\ args.operation = "INSERT"
    /\ Len(runs) >= 1
    /\ runs[1].raised.type = "AirflowException"
    /\ Len(ctor.cred_calls) = 1

\* C3 as stated: constructed with a data source that is neither "s3" nor
\* "dynamodb", the constructor fails and asks no credential provider.
C3_UnknownDataSourceFailsFast ==
    (phase # "new" /\ args.data_source \notin {"s3", "dynamodb"}) =>
        /\ phase = "ctor_failed"
        /\ ctor.cred_calls = <<>>

\* C4: over construction and every execute call, the credential provider is
\* called at most once, never inside execute, and every statement submitted
\* carries the credentials the constructor resolved.
C4_CredentialsResolvedOnce ==
    /\ Len(ctor.cred_calls) <= 1
    /\ \A i \in RunIds :
        /\ runs[i].cred_calls = <<>>
        /\ \A k \in 1..Len(runs[i].pg_calls) :
            /\ Len(ctor.cred_calls) = 1
            /\ AccessKeyOf(runs[i].pg_calls[k].sql) = ctor.cred_calls[1].result.access_key
            /\ SecretKeyOf(runs[i].pg_calls[k].sql) = ctor.cred_calls[1].result.secret_key

C4_Witness ==
    /\ Len(runs) >= 2
    /\ runs[1].pg_calls # <<>>
    /\ runs[2].pg_calls # <<>>
    /\ runs[1].raised.type = "WarehouseError"
    /\ Len(ctor.cred_calls) = 1

C6_UpsertErrorIsDistinct ==
    args.operation = "UPSERT" =>
        \A i \in RunIds :
            \A x \in Operations \ Recognized :
                runs[i].raised # execute_run([self EXCEPT !.operation = x], TRUE).raised

\* C7: a COPY run whose statement the warehouse connection fails raises the
\* failure to the caller, submits the statement once and does not log
\* "COPY command complete...".
C7_WarehouseFailurePropagates ==
    \A i \in RunIds :
        (\E k \in 1..Len(runs[i].pg_calls) : runs[i].pg_calls[k].failed) =>
            /\ runs[i].raised.type = "WarehouseError"
            /\ Len(runs[i].pg_calls) = 1
            /\ ~(\E m \in 1..Len(runs[i].log) : runs[i].log[m] = LogComplete)

C7_Witness ==
    /\ args.operation = "COPY"
    /\ Len(runs) >= 1
    /\ runs[1].pg_calls # <<>>
    /\ runs[1].pg_calls[1].failed
    /\ runs[1].raised.type = "WarehouseError"

\* C8: every COPY run makes exactly one call on the warehouse connection, the
\* submission of the statement, with the autocommit flag given to the
\* constructor; no commit is issued.
C8_AutocommitPassedThrough ==
    (phase = "constructed" /\ args.operation = "COPY") =>
        \A i \in RunIds :
            /\ Len(runs[i].pg_calls) = 1
            /\ runs[i].pg_calls[1].method = "run"
            /\ runs[i].pg_calls[1].autocommit = args.autocommit

C8_Witness ==
    /\ args.operation = "COPY"
    /\ args.autocommit = FALSE
    /\ Len(runs) >= 2
    /\ runs[2].raised = NoException
    /\ Len(runs[2].pg_calls) = 1

\* What an execute call shows to its observer: its log lines and the
\* exception it raised itself.
Observable(run) ==
    [log |-> run.log,
     raised |-> IF run.raised.type = "AirflowException" THEN run.raised ELSE NoException]

\* C9: the secret key is in no log line and in no AirflowException message of
\* any run, the same run made with any other secret key logs and raises the
\* same, and every submitted statement carries the secret key.
C9_SecretNotObservable ==
    \A i \in RunIds :
        /\ \A m \in 1..Len(runs[i].log) :
               ~Contains(runs[i].log[m], self.data_source_hook.secret_key)
        /\ ~Contains(runs[i].raised.message, self.data_source_hook.secret_key)
        /\ \A sk \in SecretKeys :
               Observable(execute_run([self EXCEPT !.data_source_hook.secret_key = sk],
                                      runs[i].raised.type # "WarehouseError"))
                   = Observable(runs[i])
        /\ \A k \in 1..Len(runs[i].pg_calls) :
               Contains(runs[i].pg_calls[k].sql, self.data_source_hook.secret_key)

C9_Witness ==
    /\ Len(runs) >= 2
    /\ runs[1].raised = NoException
    /\ runs[1].log # <<>>
    /\ self.data_source_hook.secret_key = "SK2"
    /\ Contains(runs[1].pg_calls[1].sql, "SK2")

\* C10: the statement a COPY run submits holds, in this order, schema.table,
\* the source reference with the data_source argument as its kind token, the
\* location and the key, the access key, the secret key, and the option
\* clauses in the order given, none dropped, repeated ones kept; every run of
\* the instance submits the same text.
C10_StatementFromConfiguration ==
    \A i \in RunIds : \A k \in 1..Len(runs[i].pg_calls) :
        LET sql == runs[i].pg_calls[k].sql
            opts == IF args.copy_options = NoOptions THEN <<>> ELSE args.copy_options
        IN  /\ SchemaOf(sql) = args.schema
            /\ TableOf(sql) = args.table
            /\ KindOf(sql) = args.data_source
            /\ LocationOf(sql) = args.s3bucket_or_dynamodbtable
            /\ KeyOf(sql) = (IF args.s3_key = None THEN "None" ELSE args.s3_key)
            /\ AccessKeyOf(sql) = self.data_source_hook.access_key
            /\ SecretKeyOf(sql) = self.data_source_hook.secret_key
            /\ OptionCountOf(sql) = Len(opts)
            /\ \A n \in 1..Len(opts) : OptionOf(sql, n) = opts[n]
            /\ \A j \in RunIds : \A l \in 1..Len(runs[j].pg_calls) :
                   runs[j].pg_calls[l].sql = sql

C10_Witness ==
    /\ args.data_source = "gcs"
    /\ args.copy_options = <<"GZIP", "GZIP">>
    /\ Len(runs) >= 2
    /\ runs[1].pg_calls # <<>>
    /\ runs[2].pg_calls # <<>>
    /\ OptionCountOf(runs[2].pg_calls[1].sql) = 2

====
